---- MODULE Spec2Model ----
(***************************************************************************)
(* Model of sanityCheckShortTerm.py: the reaction-string parser            *)
(* (reactions_stoch), the combinatorial factor (calculate_hi), the event   *)
(* scheduler (next_values) and the simulation loop (gillespie_algo).       *)
(*                                                                         *)
(* Conventions.                                                            *)
(*  - A Python str is a sequence of one-character strings; a Python list   *)
(*    is a sequence, so the source's l[0] is l[1] here.                    *)
(*  - A numpy array keeps the source's 0-based indices: it is a function   *)
(*    over 0..n-1 (a matrix is a function of rows).                        *)
(*  - A real number is an exact fraction <<num, den>> in lowest terms with *)
(*    den > 0; <<1, 0>> is numpy's inf. Rates are whole numbers. Floating  *)
(*    point rounding is not modelled.                                      *)
(*  - ln(1/r1) of a draw r1 in (0,1) is some positive real; the model      *)
(*    draws it directly, as a whole number 1..MaxLog; r1 = 0 (which        *)
(*    random_sample can return) gives ln(1/0) = inf.                       *)
(*  - A draw r2 in [0,1) is k/R2Den with k in 0..R2Den-1.                  *)
(*  - A Python exception ends the run: pc = "raised", error names it.      *)
(*  - The statistics are floats that can also be -inf, <<-1, 0>>, and nan, *)
(*    <<0, 0>>. The square root of coefficient_variation is not modelled:  *)
(*    the model stops at the time-weighted mean it is computed from.       *)
(*                                                                         *)
(* Specifications.                                                         *)
(*  - Spec: parse one of the small networks, then one run of               *)
(*    gillespie_algo on it.                                                *)
(*  - SpecSynapse: the same for the script's own six-reaction network.     *)
(*  - SpecParser: reactions_stoch alone, on well- and ill-formed texts.    *)
(*  - SpecHi: calculate_hi alone, on 0 <= m <= n <= HiMaxN.                *)
(***************************************************************************)
EXTENDS Integers, Sequences, FiniteSets, TLC

\* ------------------------------------------------------------------ bounds
\* Largest entry of a generic initial state vector.
MaxCount == 2
\* Largest n_max passed to gillespie_algo.
MaxNmax == 3
\* Largest tmax passed to gillespie_algo (tmax ranges over 1..MaxT).
MaxT == 1
\* Largest rate constant (rates range over 0..MaxRate).
MaxRate == 1
\* Resolution of the draw r2: r2 = k/R2Den.
R2Den == 4
\* Largest value of ln(1/r1) for a draw r1 > 0.
MaxLog == 1
\* Largest n handed to calculate_hi on its own (0 <= m <= n <= HiMaxN).
HiMaxN == 10

\* --------------------------------------------------------------- fractions
RECURSIVE Gcd(_, _)
Gcd(x, y) == IF y = 0 THEN x ELSE Gcd(y, x % y)

Abs(x) == IF x < 0 THEN -x ELSE x

\* The fraction n/d (d >= 0) in lowest terms; d = 0 is inf.
Frac(n, d) ==
    IF d = 0 THEN <<1, 0>>
    ELSE LET g == Gcd(Abs(n), d) IN <<n \div g, d \div g>>

Inf == <<1, 0>>
Zero == <<0, 1>>
IsInf(t) == t[2] = 0

\* t + u, as numpy adds floats: inf + x = inf.
TimeAdd(t, u) ==
    IF IsInf(t) \/ IsInf(u) THEN Inf
    ELSE Frac(t[1] * u[2] + u[1] * t[2], t[2] * u[2])

\* t < u.
TimeLess(t, u) ==
    IF IsInf(t) THEN FALSE
    ELSE IF IsInf(u) THEN TRUE
    ELSE t[1] * u[2] < u[1] * t[2]

NegInf == <<-1, 0>>
NaN == <<0, 0>>
IsFinite(t) == t[2] # 0
Sign(n) == IF n > 0 THEN 1 ELSE IF n < 0 THEN -1 ELSE 0

\* t * u on floats: inf * 0 = nan, nan * x = nan.
FloatMul(t, u) ==
    IF IsFinite(t) /\ IsFinite(u) THEN Frac(t[1] * u[1], t[2] * u[2])
    ELSE LET sg == Sign(t[1]) * Sign(u[1])
         IN  IF sg > 0 THEN Inf ELSE IF sg < 0 THEN NegInf ELSE NaN

\* t + u on floats: inf + (-inf) = nan, nan + x = nan.
FloatAdd(t, u) ==
    IF IsFinite(t) /\ IsFinite(u)
    THEN Frac(t[1] * u[2] + u[1] * t[2], t[2] * u[2])
    ELSE IF t = NaN \/ u = NaN THEN NaN
    ELSE IF IsFinite(t) THEN u
    ELSE IF IsFinite(u) \/ t = u THEN t
    ELSE NaN

\* t / u on numpy floats: x/0 = +-inf, 0/0 = nan, x/inf = 0, inf/inf = nan.
FloatDiv(t, u) ==
    IF t = NaN \/ u = NaN THEN NaN
    ELSE IF IsFinite(u)
         THEN IF u[1] = 0
              THEN IF t[1] > 0 THEN Inf ELSE IF t[1] < 0 THEN NegInf ELSE NaN
              ELSE IF IsFinite(t)
                   THEN Frac(Sign(u[1]) * t[1] * u[2], t[2] * Abs(u[1]))
                   ELSE IF Sign(t[1]) = Sign(u[1]) THEN Inf ELSE NegInf
         ELSE IF IsFinite(t) THEN Zero ELSE NaN

\* A whole number as a float.
Float(n) == <<n, 1>>

\* ------------------------------------------------------------ Python str
Digits == <<"0", "1", "2", "3", "4", "5", "6", "7", "8", "9">>

IsDigitChar(c) == \E d \in 1..10 : Digits[d] = c

DigitValue(c) == (CHOOSE d \in 1..10 : Digits[d] = c) - 1

\* str.isdigit(): non-empty and every character a digit.
IsDigit(s) == Len(s) > 0 /\ \A k \in 1..Len(s) : IsDigitChar(s[k])

RECURSIVE DigitsValue(_)
DigitsValue(s) ==
    IF Len(s) = 0 THEN 0
    ELSE 10 * DigitsValue(SubSeq(s, 1, Len(s) - 1)) + DigitValue(s[Len(s)])

\* int(s) succeeds on digits with an optional minus sign, and raises
\* ValueError on anything else the alphabet of the model can spell.
IntOk(s) == IsDigit(s) \/ (Len(s) > 1 /\ s[1] = "-" /\ IsDigit(Tail(s)))

ToInt(s) == IF s[1] = "-" THEN 0 - DigitsValue(Tail(s)) ELSE DigitsValue(s)

StartsWith(s, sep, i) ==
    /\ i + Len(sep) - 1 <= Len(s)
    /\ \A k \in 1..Len(sep) : s[i + k - 1] = sep[k]

RECURSIVE SplitFrom(_, _, _, _, _)
SplitFrom(s, sep, i, cur, out) ==
    IF i > Len(s) THEN Append(out, cur)
    ELSE IF StartsWith(s, sep, i)
         THEN SplitFrom(s, sep, i + Len(sep), <<>>, Append(out, cur))
         ELSE SplitFrom(s, sep, i + 1, Append(cur, s[i]), out)

\* str.split(sep): the pieces between the occurrences of sep, left to right.
Split(s, sep) == SplitFrom(s, sep, 1, <<>>, <<>>)

\* --------------------------------------------------- reaction texts (input)
\* A network is written down as a list of reactions, each with a left and a
\* right side, each side a list of terms <<coefficient, species>>; an empty
\* side is written as the literal 0, a coefficient of 1 is left out.
RECURSIVE NumStr(_)
NumStr(n) ==
    IF n < 10 THEN <<Digits[n + 1]>>
    ELSE NumStr(n \div 10) \o <<Digits[(n % 10) + 1]>>

TermStr(t) == (IF t[1] = 1 THEN <<>> ELSE NumStr(t[1])) \o <<"X">> \o NumStr(t[2])

RECURSIVE Join(_, _)
Join(parts, sep) ==
    IF Len(parts) = 0 THEN <<>>
    ELSE IF Len(parts) = 1 THEN parts[1]
    ELSE parts[1] \o sep \o Join(Tail(parts), sep)

SideStr(side) ==
    IF Len(side) = 0 THEN <<"0">>
    ELSE Join([k \in 1..Len(side) |-> TermStr(side[k])], <<"+">>)

ReactionStr(r) == SideStr(r.lhs) \o <<"-", ">">> \o SideStr(r.rhs)

NetworkStr(net) == Join([k \in 1..Len(net) |-> ReactionStr(net[k])], <<",">>)

R(l, r) == [lhs |-> l, rhs |-> r]

\* 'X1->0'
NetDecay == <<R(<<<<1, 1>>>>, <<>>)>>
\* 'X1->X2,X2->X1'
NetExchange == <<R(<<<<1, 1>>>>, <<<<1, 2>>>>), R(<<<<1, 2>>>>, <<<<1, 1>>>>)>>
\* '2X1->X2'
NetDimer == <<R(<<<<2, 1>>>>, <<<<1, 2>>>>)>>
\* 'X1->0,X2->X1'
NetDecayFeed == <<R(<<<<1, 1>>>>, <<>>), R(<<<<1, 2>>>>, <<<<1, 1>>>>)>>
\* '0->X1,X1->X2'
NetSource == <<R(<<>>, <<<<1, 1>>>>), R(<<<<1, 1>>>>, <<<<1, 2>>>>)>>
\* the text of the docstring: '2X1+X2->X3,X1->0,X3+4X2->12X1'
NetDoc ==
    <<R(<<<<2, 1>>, <<1, 2>>>>, <<<<1, 3>>>>),
      R(<<<<1, 1>>>>, <<>>),
      R(<<<<1, 3>>, <<4, 2>>>>, <<<<12, 1>>>>)>>

Networks == {NetDecay, NetExchange, NetDimer, NetDecayFeed, NetSource, NetDoc}

\* 'X7+X4->X1,X7+X5->X2,X7+X6->X3,X1->X7+X4,X2->X7+X5,X3->X7+X6': synapse
\* i binds a receptor of the pool X7 to an empty slot X(3+i), filling Xi, and
\* releases it again.
NetSynapse ==
    [k \in 1..6 |->
        IF k <= 3
        THEN R(<<<<1, 7>>, <<1, 3 + k>>>>, <<<<1, k>>>>)
        ELSE R(<<<<1, k - 3>>>>, <<<<1, 7>>, <<1, k>>>>)]

\* ------------------------------------------------------- reactions_stoch
\* One term j of a side: j.split("X"), the coefficient (1 unless j[0] is
\* digits), the species index int(j[1]) when the split gave two pieces. A
\* term that did not split in two is dropped (kept = FALSE).
TermOf(j) ==
    LET jj == Split(j, <<"X">>)
        c == IF IsDigit(jj[1]) THEN ToInt(jj[1]) ELSE 1
    IN  IF Len(jj) = 2
        THEN IF IntOk(jj[2])
             THEN [err |-> "none", kept |-> TRUE, term |-> <<c, ToInt(jj[2])>>]
             ELSE [err |-> "ValueError", kept |-> FALSE, term |-> <<c, 0>>]
        ELSE [err |-> "none", kept |-> FALSE, term |-> <<c, 0>>]

\* The inner loop over the terms of one side: sub_one_reaction.
SideTerms(side) ==
    LET ts == [k \in 1..Len(side) |-> TermOf(side[k])]
    IN  [err |-> IF \E k \in 1..Len(ts) : ts[k].err # "none"
                 THEN "ValueError" ELSE "none",
         terms |-> [k \in 1..Len(SelectSeq(ts, LAMBDA t : t.kept)) |->
                        SelectSeq(ts, LAMBDA t : t.kept)[k].term]]

\* sub_number_reaction / prod_number_reaction: the term lists of the sides,
\* in order, a side with no term left out (len(...) >= 1 guards the append).
NumberReaction(sides) ==
    SelectSeq([k \in 1..Len(sides) |-> SideTerms(sides[k]).terms],
              LAMBDA l : Len(l) >= 1)

RECURSIVE SeqMax(_)
SeqMax(l) ==
    IF Len(l) = 0 THEN 0
    ELSE LET m == SeqMax(Tail(l)) IN IF l[1] > m THEN l[1] ELSE m

\* total_number_species over one list of term lists.
MaxSpecies(lists) ==
    SeqMax([k \in 1..Len(lists) |->
              SeqMax([i \in 1..Len(lists[k]) |-> lists[k][i][2]])])

\* Python's a[c] on an axis of length n: a negative c counts from the end.
PyIndex(c, n) == IF c < 0 THEN c + n ELSE c

\* The row filled from one term list: row[species-1] = sign*coefficient, a
\* later term of the same species overwriting an earlier one.
FillRow(terms, n, sign) ==
    [c \in 0..(n - 1) |->
        LET hits == {k \in 1..Len(terms) : PyIndex(terms[k][2] - 1, n) = c}
        IN  IF hits = {} THEN 0
            ELSE sign * terms[CHOOSE k \in hits : \A h \in hits : h <= k][1]]

\* The matrix filled from the term lists: list number k fills row k (0-based),
\* the rows beyond the last list stay zero.
FillMatrix(lists, m, n, sign) ==
    [r \in 0..(m - 1) |->
        IF r + 1 <= Len(lists) THEN FillRow(lists[r + 1], n, sign)
        ELSE [c \in 0..(n - 1) |-> 0]]

ColumnsOk(lists, n) ==
    \A k \in 1..Len(lists) : \A i \in 1..Len(lists[k]) :
        PyIndex(lists[k][i][2] - 1, n) \in 0..(n - 1)

reactions_stoch(reactions) ==
    LET one_reaction == Split(reactions, <<",">>)
        s_p == [k \in 1..Len(one_reaction) |-> Split(one_reaction[k], <<"-", ">">>)]
        bad == [err |-> "IndexError", sub_stoch |-> <<>>, prod_stoch |-> <<>>]
    IN  IF \E k \in 1..Len(s_p) : Len(s_p[k]) < 2 THEN bad
        ELSE
        LET substrates == [k \in 1..Len(s_p) |-> s_p[k][1]]
            products == [k \in 1..Len(s_p) |-> s_p[k][2]]
            sub_without_plus == [k \in 1..Len(s_p) |-> Split(substrates[k], <<"+">>)]
            prod_without_plus == [k \in 1..Len(s_p) |-> Split(products[k], <<"+">>)]
            all == sub_without_plus \o prod_without_plus
        IN  IF \E k \in 1..Len(all) : SideTerms(all[k]).err # "none"
            THEN [bad EXCEPT !.err = "ValueError"]
            ELSE
            LET sub_number_reaction == NumberReaction(sub_without_plus)
                prod_number_reaction == NumberReaction(prod_without_plus)
                sn == MaxSpecies(sub_number_reaction)
                pn == MaxSpecies(prod_number_reaction)
                total_number_species == IF sn > pn THEN sn ELSE pn
                m == Len(one_reaction)
            IN  IF ~ColumnsOk(sub_number_reaction \o prod_number_reaction,
                              total_number_species)
                THEN bad
                ELSE [err |-> "none",
                      sub_stoch |-> FillMatrix(sub_number_reaction, m,
                                               total_number_species, -1),
                      prod_stoch |-> FillMatrix(prod_number_reaction, m,
                                                total_number_species, 1)]

\* ---------------------------------------------------------- calculate_hi
\* j=...; while j>0: b[j]+=b[j-1]; j-=1. The loop runs j downwards, so every
\* b[j-1] it reads is still the value from before the loop.
HiWhile(b, j) ==
    [k \in DOMAIN b |-> IF k >= 1 /\ k <= j THEN b[k] + b[k - 1] ELSE b[k]]

\* for i in range(1,n+1): b[i]=1; j=i-1; while ...
RECURSIVE HiFor(_, _, _)
HiFor(b, i, n) ==
    IF i > n THEN b ELSE HiFor(HiWhile([b EXCEPT ![i] = 1], i - 1), i + 1, n)

RECURSIVE Factorial(_)
Factorial(m) == IF m <= 0 THEN 1 ELSE m * Factorial(m - 1)

\* b[m] is an index into a list of n+1 entries: IndexError beyond it.
HiIndexOk(n, m) == PyIndex(m, n + 1) \in 0..n

\* calculate_hi without the factor factorial(m).
calculate_hi_NoFactorial(n, m) ==
    LET b == HiFor([k \in 0..n |-> IF k = 0 THEN 1 ELSE 0], 1, n)
    IN  b[PyIndex(m, n + 1)]

calculate_hi(n, m) ==
    LET b == HiFor([k \in 0..n |-> IF k = 0 THEN 1 ELSE 0], 1, n)
    IN  b[PyIndex(m, n + 1)] * Factorial(m)

\* ------------------------------------------- step 1: propensities a, a0
\* The loop over the species j of reaction i (row = sub_stoch[i]).
RECURSIVE HiOfReaction(_, _, _, _)
HiOfReaction(x, row, j, hi) ==
    IF j \notin DOMAIN row THEN [err |-> "none", hi |-> hi]
    ELSE IF row[j] = 0 THEN HiOfReaction(x, row, j + 1, hi)
    ELSE IF x[j] <= 0 THEN HiOfReaction(x, row, j + 1, 0)
    ELSE IF ~HiIndexOk(x[j], Abs(row[j])) THEN [err |-> "IndexError", hi |-> 0]
    ELSE HiOfReaction(x, row, j + 1, hi * calculate_hi(x[j], Abs(row[j])))

\* a[i] = hi*rates[i] for every reaction i, or the exception of the first
\* reaction whose hi raises.
Propensities(x, sub, rts) ==
    LET h == [i \in DOMAIN sub |-> HiOfReaction(x, sub[i], 0, 1)]
    IN  IF \E i \in DOMAIN sub : h[i].err # "none"
        THEN [err |-> "IndexError", a |-> <<>>]
        ELSE [err |-> "none", a |-> [i \in DOMAIN sub |-> h[i].hi * rts[i]]]

RECURSIVE SumTo(_, _)
SumTo(f, k) == IF k < 0 THEN 0 ELSE f[k] + SumTo(f, k - 1)

\* sum(a)
Sum(f) == SumTo(f, Cardinality(DOMAIN f) - 1)

\* ----------------------------------------------------------- next_values
\* np.log(1/r1): the draw r1 is written by that value, 0 standing for r1 = 0.
LogInv(r1) == IF r1 = 0 THEN Inf ELSE <<r1, 1>>

\* TimeDifference with np.log(r1) in place of np.log(1/r1).
TimeDifference_LogR1(a0, r1) ==
    IF a0 = 0 \/ IsInf(LogInv(r1)) THEN Inf ELSE Frac(0 - LogInv(r1)[1], a0)

\* (1/a0)*np.log(1/r1)
TimeDifference(a0, r1) ==
    IF a0 = 0 \/ IsInf(LogInv(r1)) THEN Inf ELSE Frac(LogInv(r1)[1], a0)

\* while N > 0: mu += 1; N = N - a[mu]   (N is held times R2Den)
RECURSIVE MuWhile(_, _, _)
MuWhile(a, mu, N) ==
    IF N > 0
    THEN IF mu + 1 \notin DOMAIN a THEN [err |-> "IndexError", mu |-> mu + 1]
         ELSE MuWhile(a, mu + 1, N - R2Den * a[mu + 1])
    ELSE [err |-> "none", mu |-> mu]

\* next_values with the loop test N >= 0 in place of N > 0.
RECURSIVE MuWhile_Ge(_, _, _)
MuWhile_Ge(a, mu, N) ==
    IF N >= 0
    THEN IF mu + 1 \notin DOMAIN a THEN [err |-> "IndexError", mu |-> mu + 1]
         ELSE MuWhile_Ge(a, mu + 1, N - R2Den * a[mu + 1])
    ELSE [err |-> "none", mu |-> mu]

next_values_Ge(a0, a, r1, r2) ==
    LET sel == MuWhile_Ge(a, 0, r2 * a0 - R2Den * a[0])
    IN  [err |-> sel.err, new_time_difference |-> TimeDifference(a0, r1),
         mu |-> sel.mu]

next_values(a0, a, r1, r2) ==
    LET sel == MuWhile(a, 0, r2 * a0 - R2Den * a[0])
    IN  [err |-> sel.err, new_time_difference |-> TimeDifference(a0, r1),
         mu |-> sel.mu]

\* ------------------------------------------------------------------ state
VARIABLES
    pc,                     \* "parse", "call", "while", "returned", "raised"
    error,                  \* the exception raised, "none" if none
    reactions,              \* the text handed to reactions_stoch
    sub_stoch, prod_stoch,  \* its result
    init1,                  \* the initial state vector as the caller built it
    rates, tmax, n_max,     \* the other arguments of gillespie_algo
    current_time,
    current_species,        \* the same array object as the argument init
    n_counter,
    store_time,
    store_number_molecules,
    a,                      \* the propensities of the last completed iteration
    r1, r2,                 \* the pair of draws it read, r1[n] and r2[n]
    new_time_difference,
    next_r,
    hi_n, hi_m, hi,         \* a call hi = calculate_hi(hi_n, hi_m) on its own
    s_i,
    store_time_difference,
    store_filling_fraction_av,
    filling_fraction,
    average

vars == <<pc, error, reactions, sub_stoch, prod_stoch, init1, rates, tmax, n_max,
          current_time, current_species, n_counter, store_time,
          store_number_molecules, a, r1, r2, new_time_difference, next_r,
          hi_n, hi_m, hi, s_i, store_time_difference,
          store_filling_fraction_av, filling_fraction, average>>

statistics == <<store_time_difference, store_filling_fraction_av,
                filling_fraction, average>>

hi_call == <<hi_n, hi_m, hi>>

inputs == <<reactions, sub_stoch, prod_stoch, init1, rates, tmax, n_max>>
locals == <<a, r1, r2, new_time_difference, next_r>>

\* Stoch with prod_stoch - sub_stoch in place of the sum.
Stoch_Minus(sub, prod) ==
    [i \in DOMAIN sub |-> [j \in DOMAIN sub[i] |-> prod[i][j] - sub[i][j]]]

\* stoch = sub_stoch + prod_stoch
Stoch(sub, prod) ==
    [i \in DOMAIN sub |-> [j \in DOMAIN sub[i] |-> sub[i][j] + prod[i][j]]]

number_reactions == Cardinality(DOMAIN sub_stoch)
number_species == Cardinality(DOMAIN sub_stoch[0])

\* The state vectors a run is started from: every vector of small counts, and
\* for two species the vector [10, 0] of the conservation scenario.
InitVectors(n) ==
    [0..(n - 1) -> 0..MaxCount] \cup
        (IF n = 2 THEN {[j \in 0..1 |-> IF j = 0 THEN 10 ELSE 0]} ELSE {})

\* The synapse network is started as the script starts it: the state is
\* [w_1, w_2, w_3, e_1, e_2, e_3, p] with e_i = s_i - w_i for the slots s_i
\* and the rates are alpha, three times, then beta, three times, both > 0.
SynapseSlots == [i \in 0..2 |-> IF i = 2 THEN 2 ELSE 1]

SynapseFillings ==
    { [i \in 0..2 |-> 0],
      [i \in 0..2 |-> IF i = 0 THEN 0 ELSE 1],
      SynapseSlots }

SynapseInits ==
    { [j \in 0..6 |-> IF j <= 2 THEN w[j]
                      ELSE IF j <= 5 THEN SynapseSlots[j - 3] - w[j - 3]
                      ELSE p] :
        w \in SynapseFillings, p \in 0..MaxCount }

SynapseRates ==
    { [i \in 0..5 |-> IF i <= 2 THEN alpha ELSE beta] :
        alpha \in 1..MaxRate, beta \in 1..MaxRate }

IsSynapseNetwork == reactions = NetworkStr(NetSynapse)

\* The arguments init and rates of a call, for the network that was parsed.
StartVectors ==
    IF IsSynapseNetwork THEN SynapseInits ELSE InitVectors(number_species)

RateVectors ==
    IF IsSynapseNetwork THEN SynapseRates
    ELSE [0..(number_reactions - 1) -> 0..MaxRate]

\* Nothing has been called yet.
InitRest ==
    /\ error = "none"
    /\ sub_stoch = <<>>
    /\ prod_stoch = <<>>
    /\ init1 = <<>>
    /\ rates = <<>>
    /\ tmax = Zero
    /\ n_max = 0
    /\ current_time = Zero
    /\ current_species = <<>>
    /\ n_counter = 0
    /\ store_time = <<>>
    /\ store_number_molecules = <<>>
    /\ a = <<>>
    /\ r1 = 0
    /\ r2 = 0
    /\ new_time_difference = Zero
    /\ next_r = 0
    /\ hi = 0
    /\ s_i = <<>>
    /\ store_time_difference = <<>>
    /\ store_filling_fraction_av = <<>>
    /\ filling_fraction = <<>>
    /\ average = <<>>

Init ==
    /\ pc = "parse"
    /\ reactions \in {NetworkStr(net) : net \in Networks}
    /\ hi_n = 0
    /\ hi_m = 0
    /\ InitRest

\* sub_stoch, prod_stoch = reactions_stoch(...)
ReactionsStoch ==
    /\ pc = "parse"
    /\ LET res == reactions_stoch(reactions)
       IN  IF res.err = "none"
           THEN /\ sub_stoch' = res.sub_stoch
                /\ prod_stoch' = res.prod_stoch
                /\ pc' = "call"
                /\ error' = error
           ELSE /\ pc' = "raised"
                /\ error' = res.err
                /\ UNCHANGED <<sub_stoch, prod_stoch>>
    /\ UNCHANGED <<reactions, init1, rates, tmax, n_max, current_time,
                   current_species, n_counter, store_time,
                   store_number_molecules, locals, hi_call, s_i, statistics>>

\* current_species = init binds the caller's array, it does not copy it, and
\* current_species += ... adds in place: after the call started, the caller's
\* init is the array the loop works on.
init == current_species

\* number_synapses = int((len(init)-1)/2)
number_synapses(n) == IF n >= 1 THEN (n - 1) \div 2 ELSE 0

\* The slots handed over with a state vector [w_1.., e_1.., p]: s_i = w_i + e_i.
Slots(x) ==
    LET ns == number_synapses(Cardinality(DOMAIN x))
    IN  [i \in 0..(ns - 1) |-> x[i] + x[ns + i]]

\* gillespie_algo, step 0: the call and the initialisation before the loop.
GillespieInit ==
    /\ pc = "call"
    /\ \E x0 \in StartVectors,
          rts \in RateVectors,
          tm \in 1..MaxT,
          nm \in 1..MaxNmax :
        /\ init1' = x0
        /\ s_i' = Slots(x0)
        /\ rates' = rts
        /\ tmax' = <<tm, 1>>
        /\ n_max' = nm
        /\ current_time' = Zero
        /\ current_species' = x0
        /\ n_counter' = 0
        /\ store_time' = [k \in 0..(nm - 1) |-> Zero]
        /\ store_number_molecules' =
               [k \in 0..(nm - 1) |->
                   IF k = 0 THEN x0 ELSE [j \in DOMAIN x0 |-> 0]]
        /\ store_time_difference' =
               [k \in 0..(nm - 1) |-> [i \in DOMAIN Slots(x0) |-> Zero]]
        /\ store_filling_fraction_av' = [i \in DOMAIN Slots(x0) |-> Zero]
    /\ pc' = "while"
    /\ UNCHANGED <<error, reactions, sub_stoch, prod_stoch, locals, hi_call,
                   filling_fraction, average>>

\* while (current_time < tmax) and (n_counter < n_max-1)
LoopCondition == TimeLess(current_time, tmax) /\ n_counter < n_max - 1

Raise(e) ==
    /\ pc' = "raised"
    /\ error' = e

\* One iteration of the loop, reading the pair of draws r1[n_counter],
\* r2[n_counter] = d1, d2. (The propensities are bound by \E over a one-element
\* set, so that they are evaluated once per state.)
LoopStep ==
    /\ pc = "while"
    /\ LoopCondition
    /\ \E p \in {Propensities(current_species, sub_stoch, rates)} :
           IF p.err # "none"
           THEN /\ Raise(p.err)
                /\ UNCHANGED <<current_time, current_species, n_counter,
                               store_time, store_number_molecules, locals,
                               store_time_difference,
                               store_filling_fraction_av>>
           ELSE \E d1 \in 0..MaxLog, d2 \in 0..(R2Den - 1) :
                LET nv == next_values(Sum(p.a), p.a, d1, d2)
                    row == Stoch(sub_stoch, prod_stoch)[nv.mu]
                    t == TimeAdd(current_time, nv.new_time_difference)
                    x == [j \in DOMAIN current_species |->
                             current_species[j] + row[j]]
                IN  IF n_counter \notin 0..(n_max - 1) \/ nv.err # "none"
                    THEN /\ Raise("IndexError")
                         /\ UNCHANGED <<current_time, current_species, n_counter,
                                        store_time, store_number_molecules,
                                        locals, store_time_difference,
                                        store_filling_fraction_av>>
                    ELSE /\ a' = p.a
                         /\ r1' = d1
                         /\ r2' = d2
                         /\ new_time_difference' = nv.new_time_difference
                         /\ next_r' = nv.mu
                         /\ current_time' = t
                         /\ current_species' = x
                         /\ n_counter' = n_counter + 1
                         /\ store_time_difference' =
                                [store_time_difference EXCEPT ![n_counter] =
                                    [i \in DOMAIN s_i |->
                                        nv.new_time_difference]]
                         /\ IF n_counter + 1 \in DOMAIN store_time
                            THEN /\ store_time' =
                                        [store_time EXCEPT ![n_counter + 1] = t]
                                 /\ store_number_molecules' =
                                        [store_number_molecules
                                            EXCEPT ![n_counter + 1] = x]
                                 /\ store_filling_fraction_av' =
                                        [i \in DOMAIN s_i |->
                                            FloatAdd(store_filling_fraction_av[i],
                                                FloatMul(nv.new_time_difference,
                                                         Float(x[i])))]
                                 /\ UNCHANGED <<pc, error>>
                            ELSE /\ Raise("IndexError")
                                 /\ UNCHANGED <<store_time,
                                                store_number_molecules,
                                                store_filling_fraction_av>>
    /\ UNCHANGED <<inputs, hi_call, s_i, filling_fraction, average>>

\* store_time[:n_counter]
Truncate(f, n) == [k \in {i \in DOMAIN f : i < n} |-> f[k]]

\* sum(store_time_difference*mol_cv)[i] over the rows 0..n-1, from the int 0.
RECURSIVE WeightedSum(_, _, _, _)
WeightedSum(td, mol, i, n) ==
    IF n = 0 THEN Zero
    ELSE FloatAdd(WeightedSum(td, mol, i, n - 1),
                  FloatMul(td[n - 1][i], Float(mol[n - 1][i])))

\* After the loop: the truncation of the stores and the statistics. With no
\* iteration run, current_time is still the int 0 and the sum over no rows
\* is the int 0, so average /= current_time raises ZeroDivisionError; after
\* an iteration both are numpy arrays and the division only warns.
Finish ==
    /\ pc = "while"
    /\ ~LoopCondition
    /\ store_time' = Truncate(store_time, n_counter)
    /\ store_number_molecules' = Truncate(store_number_molecules, n_counter)
    /\ store_time_difference' = Truncate(store_time_difference, n_counter)
    /\ filling_fraction' =
           [i \in DOMAIN s_i |->
               FloatDiv(store_filling_fraction_av[i],
                        FloatMul(current_time, Float(s_i[i])))]
    /\ IF n_counter = 0
       THEN /\ Raise("ZeroDivisionError")
            /\ average' = average
       ELSE /\ pc' = "returned"
            /\ error' = error
            /\ average' =
                   [i \in DOMAIN s_i |->
                       FloatDiv(WeightedSum(store_time_difference,
                                            store_number_molecules, i,
                                            n_counter),
                                current_time)]
    /\ UNCHANGED <<inputs, current_time, current_species, n_counter, locals,
                   hi_call, s_i, store_filling_fraction_av>>

Next == ReactionsStoch \/ GillespieInit \/ LoopStep \/ Finish

Spec == Init /\ [][Next]_vars

\* ------------------------------------------------- calculate_hi on its own
InitHi ==
    /\ pc = "hi"
    /\ reactions = <<>>
    /\ hi_n \in 0..HiMaxN
    /\ hi_m \in 0..hi_n
    /\ InitRest

\* hi = calculate_hi(hi_n, hi_m)
CalculateHi ==
    /\ pc = "hi"
    /\ hi' = calculate_hi(hi_n, hi_m)
    /\ pc' = "hi_done"
    /\ UNCHANGED <<error, inputs, current_time, current_species, n_counter,
                   store_time, store_number_molecules, locals, hi_n, hi_m,
                   s_i, statistics>>

SpecHi == InitHi /\ [][CalculateHi]_vars

\* --------------------------------------------- the script's synapse network
InitSynapse ==
    /\ pc = "parse"
    /\ reactions = NetworkStr(NetSynapse)
    /\ hi_n = 0
    /\ hi_m = 0
    /\ InitRest

SpecSynapse == InitSynapse /\ [][Next]_vars

\* ---------------------------------------------- reactions_stoch on any text
\* Sides a caller can write, well-formed or not: 'X1', '2X1', 'X2', '0',
\* '2Y1', 'X', 'abc', 'X1X2', 'X0', 'X1+Y'.
ParserSides ==
    { <<"X", "1">>, <<"2", "X", "1">>, <<"X", "2">>, <<"0">>,
      <<"2", "Y", "1">>, <<"X">>, <<"a", "b", "c">>,
      <<"X", "1", "X", "2">>, <<"X", "0">>, <<"X", "1", "+", "Y">> }

\* The one-reaction texts 'lhs->rhs' over these sides.
ParserTexts == {l \o <<"-", ">">> \o r : l \in ParserSides, r \in ParserSides}

InitParser ==
    /\ pc = "parse"
    /\ reactions \in ParserTexts
    /\ hi_n = 0
    /\ hi_m = 0
    /\ InitRest

SpecParser == InitParser /\ [][ReactionsStoch]_vars

\* ----------------------------------------------------------------- claims
InRun == pc \in {"while", "returned", "raised"}

\* The snapshots written so far: rows 0..n_counter of the stores.
Written(k) == k \in DOMAIN store_number_molecules /\ k <= n_counter

\* C1: every state snapshot written to the trajectory has all entries >= 0.
C1_SnapshotsNonNegative ==
    InRun => \A k \in DOMAIN store_number_molecules :
                 Written(k) =>
                     \A j \in DOMAIN store_number_molecules[k] :
                         store_number_molecules[k][j] >= 0

\* C2: an iteration that finds a0 = 0 ends the loop without firing a
\* reaction: the state, the time and the event count stay as they were.
C2_AbsorbedStep ==
    (/\ pc = "while"
     /\ LoopCondition
     /\ Propensities(current_species, sub_stoch, rates).err = "none"
     /\ Sum(Propensities(current_species, sub_stoch, rates).a) = 0)
    => (/\ pc' # "while"
        /\ current_species' = current_species
        /\ current_time' = current_time
        /\ n_counter' = n_counter)

C2_AbsorbedStops == [][C2_AbsorbedStep]_vars

\* Reaction i consumes a species of which the state x has fewer molecules
\* than the coefficient.
Insufficient(i, x) ==
    \E j \in DOMAIN sub_stoch[i] :
        sub_stoch[i][j] # 0 /\ x[j] < Abs(sub_stoch[i][j])

\* C3: at the start of an iteration, a reaction with too few molecules of a
\* consumed species gets propensity 0, and the propensity step completes.
C3_ZeroOnInsufficiency ==
    (pc = "while" /\ LoopCondition) =>
        \A i \in DOMAIN sub_stoch :
            Insufficient(i, current_species) =>
                /\ Propensities(current_species, sub_stoch, rates).err = "none"
                /\ Propensities(current_species, sub_stoch, rates).a[i] = 0

\* C4: with a0 > 0 and r2 in (0,1), the index next_values returned is in
\* 0..M-1 and is the smallest whose partial sum a[0]+...+a[mu] is >= r2*a0.
C4_SmallestIndex ==
    (InRun /\ n_counter >= 1 /\ Sum(a) > 0 /\ r2 > 0) =>
        /\ next_r \in DOMAIN a
        /\ R2Den * SumTo(a, next_r) >= r2 * Sum(a)
        /\ \A i \in DOMAIN a :
               i < next_r => R2Den * SumTo(a, i) < r2 * Sum(a)

\* A selection past index 0 that skipped a reaction of positive propensity.
C4_Witness ==
    /\ InRun /\ n_counter >= 1 /\ r2 > 0
    /\ next_r >= 1 /\ a[0] > 0

\* C5: the event count and every index into the draws and the stores stay
\* within 0..n_max-1, and a run that stops at the step bound before tmax
\* returns its partial trajectory instead of raising.
C5_StepBoundGraceful ==
    InRun =>
        /\ n_counter \in 0..(n_max - 1)
        /\ (/\ pc \in {"returned", "raised"}
            /\ n_counter = n_max - 1
            /\ TimeLess(current_time, tmax))
           => pc = "returned"

\* C6: the returned trajectory has one entry per fired reaction and the
\* initial one, the last entry being the final time and state.
C6_TrajectoryComplete ==
    pc = "returned" =>
        /\ DOMAIN store_time = 0..n_counter
        /\ DOMAIN store_number_molecules = 0..n_counter
        /\ store_time[n_counter] = current_time
        /\ store_number_molecules[n_counter] = current_species

\* The conservation scenario: 'X1->X2,X2->X1', rates [1,1], state [10,0].
ExchangeScenario ==
    /\ InRun
    /\ reactions = NetworkStr(NetExchange)
    /\ init1 = [j \in 0..1 |-> IF j = 0 THEN 10 ELSE 0]
    /\ rates = [i \in 0..1 |-> 1]

CoefRow(side, n) ==
    [c \in 0..(n - 1) |->
        IF \E k \in 1..Len(side) : side[k][2] - 1 = c
        THEN side[CHOOSE k \in 1..Len(side) : side[k][2] - 1 = c][1]
        ELSE 0]

\* C8: row r of the product matrix holds the coefficients of the right side
\* of reaction r, row r of the substrate matrix those of its left side (as
\* magnitudes), whether or not a side before it is the literal 0.
C8_RowsMatchReactions ==
    pc = "call" =>
        \A net \in Networks :
            reactions = NetworkStr(net) =>
                \A r \in 1..Len(net) :
                    /\ prod_stoch[r - 1] = CoefRow(net[r].rhs, number_species)
                    /\ [j \in DOMAIN sub_stoch[r - 1] |-> Abs(sub_stoch[r - 1][j])]
                           = CoefRow(net[r].lhs, number_species)

\* C9: every waiting time is > 0 and the written times strictly increase.
C9_TimesIncrease ==
    InRun =>
        /\ n_counter >= 1 => TimeLess(Zero, new_time_difference)
        /\ \A k \in DOMAIN store_time :
               (k >= 1 /\ k <= n_counter) =>
                   TimeLess(store_time[k - 1], store_time[k])

\* Two reactions have fired at finite times.
C9_Witness ==
    /\ pc = "while"
    /\ n_counter = 2
    /\ ~IsInf(store_time[2])

\* n * (n-1) * ... * (n-m+1): the ordered selections of m out of n.
RECURSIVE OrderedSelections(_, _)
OrderedSelections(n, m) ==
    IF m = 0 THEN 1 ELSE n * OrderedSelections(n - 1, m - 1)

C12_ZeroTimeStep ==
    (pc = "while" /\ ~LoopCondition /\ current_time = Zero) =>
        /\ error' = "UndefinedStatistic"
        /\ \A i \in DOMAIN filling_fraction' : filling_fraction'[i] # NaN

C12_UndefinedStatistic == [][C12_ZeroTimeStep]_vars

\* C14: whenever a0 > 0, for every draw r2 in [0,1), r2 = 0 included, the
\* reaction that was fired had a strictly positive propensity.
C14_FiredIsFeasible ==
    (InRun /\ n_counter >= 1 /\ Sum(a) > 0) => a[next_r] > 0

\* C15: on return the caller's init holds the values it was passed with.
C15_InitUntouched == pc = "returned" => init = init1

\* C(n, k), by the multiplicative formula.
RECURSIVE Binomial(_, _)
Binomial(n, k) ==
    IF k = 0 THEN 1 ELSE (n * Binomial(n - 1, k - 1)) \div k

\* The product of C(x[j], k_j) over the species j..N-1 that row consumes.
RECURSIVE BinomialProduct(_, _, _)
BinomialProduct(x, row, j) ==
    IF j \notin DOMAIN row THEN 1
    ELSE (IF row[j] = 0 THEN 1 ELSE Binomial(x[j], Abs(row[j])))
             * BinomialProduct(x, row, j + 1)

\* C16: in a state with enough molecules of everything reaction i consumes,
\* the propensity of i is rates[i] times the product of the binomial
\* coefficients C(x[s], k_s) (rates[i] alone when i consumes nothing).
C16_BinomialPropensity ==
    (pc = "while" /\ LoopCondition) =>
        \A i \in DOMAIN sub_stoch :
            (\A j \in DOMAIN sub_stoch[i] :
                 sub_stoch[i][j] # 0 =>
                     current_species[j] >= Abs(sub_stoch[i][j])
                     /\ current_species[j] > 0)
            => /\ Propensities(current_species, sub_stoch, rates).err = "none"
               /\ Propensities(current_species, sub_stoch, rates).a[i] =
                      rates[i] * BinomialProduct(current_species, sub_stoch[i], 0)

\* A term of the form [positive integer]X<positive integer>.
WellFormedTerm(t) ==
    LET jj == Split(t, <<"X">>)
    IN  /\ Len(jj) = 2
        /\ jj[1] = <<>> \/ (IsDigit(jj[1]) /\ DigitsValue(jj[1]) >= 1)
        /\ IsDigit(jj[2]) /\ DigitsValue(jj[2]) >= 1

\* A side is the literal 0 or well-formed terms joined by +.
WellFormedSide(side) ==
    \/ side = <<"0">>
    \/ \A k \in 1..Len(Split(side, <<"+">>)) :
           WellFormedTerm(Split(side, <<"+">>)[k])

\* Some reaction of the text has a side with a malformed term.
HasMalformedTerm(text) ==
    \E k \in 1..Len(Split(text, <<",">>)) :
        LET s_p == Split(Split(text, <<",">>)[k], <<"-", ">">>)
        IN  \E e \in 1..Len(s_p) : ~WellFormedSide(s_p[e])

\* C13: reactions_stoch on a text with a malformed term fails with a parse
\* error and returns no matrices; it never goes on with the term dropped.
C13_MalformedRejected ==
    (pc # "parse" /\ HasMalformedTerm(reactions)) =>
        /\ pc = "raised"
        /\ sub_stoch = <<>>
        /\ prod_stoch = <<>>

\* C17: for every synapse, the filling fraction times the slots is the
\* time-weighted mean occupancy the coefficient of variation is computed from.
C17_SameOccupancySum ==
    (pc = "returned" /\ IsFinite(current_time)) =>
        \A i \in DOMAIN s_i :
            FloatMul(filling_fraction[i], Float(s_i[i])) = average[i]

\* w_i + e_i of synapse i and w_1 + w_2 + w_3 + p in the state x.
SlotsOf(x, i) == x[i] + x[3 + i]
Receptors(x) == x[0] + x[1] + x[2] + x[6]

\* C18: in the six-reaction, three-synapse network every state the run goes
\* through keeps w_i + e_i of each synapse and w_1 + w_2 + w_3 + p at their
\* initial values.
C18_SynapseConservation ==
    (InRun /\ IsSynapseNetwork) =>
        \A k \in DOMAIN store_number_molecules \cup {-1} :
            LET x == IF k = -1 THEN current_species
                     ELSE store_number_molecules[k]
            IN  (k = -1 \/ Written(k)) =>
                    /\ \A i \in 0..2 : SlotsOf(x, i) = SlotsOf(init1, i)
                    /\ Receptors(x) = Receptors(init1)

\* A returned run of the synapse network in which two reactions fired at
\* finite times and left synapse 1 with another occupancy than at the start.
C18_Witness ==
    /\ IsSynapseNetwork /\ pc = "returned" /\ n_counter = 2
    /\ IsFinite(current_time)
    /\ store_number_molecules[1][0] # init1[0]

====
